---------------------------- MODULE Spec2Model ----------------------------
(* A model of the DQN training engine of trainers/dqn_trainer.py:          *)
(* the exploration schedule, the replay buffer the trainer owns, the       *)
(* epsilon-greedy action selection, the buffering of transitions, the      *)
(* learning update, the target synchronisation and save/load.              *)
(*                                                                         *)
(* Real numbers (epsilon, tau, gamma, parameters, targets) are exact       *)
(* rationals <<n, d>> with d > 0, kept in lowest terms.                    *)
EXTENDS Integers, Sequences, FiniteSets, TLC

VARIABLES
    args,          \* the configuration (self.all_args)
    envs,          \* the vectorised environment: num_envs and its spaces
    pc,            \* where the trainer is: new, idle, select, env, store, learn, sync, done
    global_step,   \* the loop counter of train
    epsilon,       \* the epsilon of the current iteration
    explored,      \* per instance: the action came from single_action_space.sample()
    actions,       \* the actions of the current iteration
    obs,           \* the observation carried by the loop
    step_out,      \* what envs.step returned: next_obs, rewards, terminated, truncated, final_observation
    q_net,         \* the online estimator's parameters
    targ_net,      \* the target estimator's parameters
    rb,            \* the replay buffer: slots, pos, full
    disk,          \* the saved state dict (dqn.pt), NoNet when no file exists
    batch,         \* the batch of the last sample call of this iteration: <<>> when none
    td_target,     \* the targets computed for that batch
    events,        \* what this iteration did: counts of add, sample, gradient step, sync
    main           \* the run of train.py main: its parsed flags and what it has created

vars == <<args, envs, pc, global_step, epsilon, explored, actions, obs, step_out,
          q_net, targ_net, rb, disk, batch, td_target, events, main>>

None == "None"

(***************************************************************************)
(* Bounds of the model.                                                    *)
(***************************************************************************)
MaxSteps == 3       \* total_timesteps ranges over 0..MaxSteps in the loop specification
MaxCap == 2         \* buffer_size ranges over 1..MaxCap in the loop specification
MaxSchedSteps == 100 \* the largest total_timesteps of the schedule specification
MaxInserts == 16    \* the number of add calls of the buffer specification
MaxBufCap == 8      \* the largest capacity of the buffer specification
DataSteps == 2      \* total_timesteps of the data-flow specification
VecEnvs == 2        \* num_envs of the vectorised specification
SyncSteps == 3      \* total_timesteps of the synchronisation specification
TermSteps == 4      \* the largest total_timesteps of the termination specification

(***************************************************************************)
(* Exact rational arithmetic.                                              *)
(***************************************************************************)
\* A value is a pair <<numerator, denominator>> in lowest terms with a positive
\* denominator. Each operation binds its operands once, as elements of a singleton.
Abs(x) == IF x < 0 THEN -x ELSE x

RECURSIVE GCD(_, _)
GCD(a, b) == IF b = 0 THEN a ELSE GCD(b, a % b)

Rat(n, d) ==
    CHOOSE r \in {LET g == GCD(Abs(m), Abs(e))
                      s == IF e < 0 THEN -1 ELSE 1
                  IN  <<(s * m) \div g, (s * e) \div g>> : m \in {n}, e \in {d}} : TRUE

FromInt(n) == <<n, 1>>
RatAdd(x, y) ==
    CHOOSE r \in {Rat(a[1] * b[2] + b[1] * a[2], a[2] * b[2]) : a \in {x}, b \in {y}} : TRUE
RatSub(x, y) ==
    CHOOSE r \in {Rat(a[1] * b[2] - b[1] * a[2], a[2] * b[2]) : a \in {x}, b \in {y}} : TRUE
RatMul(x, y) ==
    CHOOSE r \in {Rat(a[1] * b[1], a[2] * b[2]) : a \in {x}, b \in {y}} : TRUE
RatDiv(x, y) ==
    CHOOSE r \in {Rat(a[1] * b[2], a[2] * b[1]) : a \in {x}, b \in {y}} : TRUE
RatLeq(x, y) == \E a \in {x}, b \in {y} : a[1] * b[2] <= b[1] * a[2]
RatLt(x, y) == \E a \in {x}, b \in {y} : a[1] * b[2] < b[1] * a[2]
RatMax(x, y) == CHOOSE r \in {IF RatLeq(b, a) THEN a ELSE b : a \in {x}, b \in {y}} : TRUE

(***************************************************************************)
(* linear_schedule (dqn_trainer.py 53-55).                                 *)
(***************************************************************************)
\* Variant: the schedule without its floor.
linear_schedule_noclamp(start_e, end_e, duration, t) ==
    LET slope == RatDiv(RatSub(end_e, start_e), duration)
    IN  RatAdd(RatMul(slope, FromInt(t)), start_e)

\* Variant: the schedule with the sign of its slope reversed.
linear_schedule_rising(start_e, end_e, duration, t) ==
    LET slope == RatDiv(RatSub(start_e, end_e), duration)
    IN  RatMax(RatAdd(RatMul(slope, FromInt(t)), start_e), end_e)

linear_schedule(start_e, end_e, duration, t) ==
    LET slope == RatDiv(RatSub(end_e, start_e), duration)
    IN  RatMax(RatAdd(RatMul(slope, FromInt(t)), start_e), end_e)

\* The duration train passes to linear_schedule (line 89).
Duration(a) == RatMul(a.exploration_fraction, FromInt(a.total_timesteps))


(***************************************************************************)
(* The environment (an external collaborator): num_envs instances, each    *)
(* with the same observation, action and reward spaces. An instance whose  *)
(* episode ends (terminated or truncated) is reset by step: its next_obs   *)
(* is the post-reset observation and info["final_observation"] holds the   *)
(* true successor.                                                         *)
(***************************************************************************)
Envs == 1 .. envs.num_envs
ObsSpace == envs.single_observation_space
Actions == envs.single_action_space
Rewards == envs.reward_range
ResetObs == 0
\* The entry of info["final_observation"] for an instance whose episode goes on.
NoObs == -1
\* A network or a checkpoint file that does not exist yet.
NoNet == <<>>

\* What one instance can report for a step: <<successor, reward, terminated, truncated>>.
InstanceOutcomes == ObsSpace \X Rewards \X BOOLEAN \X BOOLEAN

\* envs.step(actions) (line 97) for the per-instance outcomes o.
StepResult(o) ==
    [next_obs |-> [i \in Envs |-> IF o[i][3] \/ o[i][4] THEN ResetObs ELSE o[i][1]],
     rewards |-> [i \in Envs |-> o[i][2]],
     terminated |-> [i \in Envs |-> o[i][3]],
     truncated |-> [i \in Envs |-> o[i][4]],
     final_observation |-> [i \in Envs |-> IF o[i][3] \/ o[i][4] THEN o[i][1] ELSE NoObs]]

NoStep == [next_obs |-> <<>>, rewards |-> <<>>, terminated |-> <<>>,
           truncated |-> <<>>, final_observation |-> <<>>]

(***************************************************************************)
(* The estimators (agents.dqn.QNetwork): one parameter per action; the     *)
(* score of action a for observation o is its parameter plus o * a.        *)
(***************************************************************************)
QValues(net, o) == [a \in Actions |-> RatAdd(net[a], FromInt(o * a))]

\* torch.argmax over the actions: the first maximal index.
Argmax(q) ==
    CHOOSE a \in DOMAIN q :
        /\ \A b \in DOMAIN q : RatLeq(q[b], q[a])
        /\ \A b \in DOMAIN q : b < a => RatLt(q[b], q[a])

\* .max(dim=1) of the scores.
MaxValue(q) == q[Argmax(q)]

\* take_actions / the greedy branch (lines 93-94, 148-151).
GreedyActions(net, o) == [i \in DOMAIN o |-> Argmax(QValues(net, o[i]))]

\* The parameters QNetwork(self.envs) may start with: all 0 or all 1.
InitParams == {[a \in Actions |-> FromInt(v)] : v \in {0, 1}}

(***************************************************************************)
(* The replay buffer (stable_baselines3 ReplayBuffer, constructed at       *)
(* lines 69-75 with handle_timeout_termination=False): a circular store.   *)
(***************************************************************************)
RbNew(capacity) ==
    [buffer_size |-> capacity, pos |-> 0, full |-> FALSE,
     slots |-> [i \in 0 .. capacity - 1 |-> None]]

\* Variant: an add that stays on the last slot instead of wrapping around.
RbAddNoWrap(b, tr) ==
    [b EXCEPT !.slots = [i \in DOMAIN b.slots |->
                            IF i = b.pos THEN tr ELSE b.slots[i]],
              !.pos = IF b.pos + 1 >= b.buffer_size THEN b.pos ELSE b.pos + 1,
              !.full = b.full \/ b.pos + 1 = b.buffer_size]

RbAdd(b, tr) ==
    [b EXCEPT !.slots[b.pos] = tr,
              !.pos = IF b.pos + 1 = b.buffer_size THEN 0 ELSE b.pos + 1,
              !.full = b.full \/ b.pos + 1 = b.buffer_size]

\* The number of filled entries.
RbSize(b) == IF b.full THEN b.buffer_size ELSE b.pos

\* sample(batch_size): batch_size draws, with replacement, of a filled slot and an
\* instance. No draw exists when nothing is stored.
RbSamples(b, batch_size) ==
    [1 .. batch_size -> (0 .. RbSize(b) - 1) \X (1 .. envs.num_envs)]

\* The fields of the batch element drawn as <<slot, instance>>.
RbData(b, e) ==
    LET tr == b.slots[e[1]]
        i == e[2]
    IN  [observations |-> tr.obs[i], next_observations |-> tr.next_obs[i],
         actions |-> tr.actions[i], rewards |-> tr.rewards[i],
         dones |-> IF tr.dones[i] THEN 1 ELSE 0]


(***************************************************************************)
(* The pieces of one loop iteration of DQNTrainer.train.                   *)
(***************************************************************************)
\* random.random() < epsilon (line 90), random() drawn from [0, 1).
ExploreChoices(eps) ==
    {u \in BOOLEAN : (u => RatLt(FromInt(0), eps)) /\ (~u => RatLt(eps, FromInt(1)))}

\* One draw decides the branch taken for the whole batch of instances (lines 90-94).
SelectionModes(u) == [i \in Envs |-> u]

\* The actions of the branch taken (line 91 or lines 93-94).
ActionChoices(u) == IF u THEN [Envs -> Actions] ELSE {GreedyActions(q_net, obs)}

\* real_next_obs (lines 111-114).
\* Variant: the next observation buffered as step returned it.
RealNextObsUncorrected(step) == step.next_obs

RealNextObs(step) ==
    [i \in Envs |-> IF step.truncated[i] THEN step.final_observation[i]
                    ELSE step.next_obs[i]]

\* The done flags handed to rb.add (line 115).
\* Variant: done flags that also count a truncation.
StoredDonesAnyEnd(step) == [i \in Envs |-> step.terminated[i] \/ step.truncated[i]]

StoredDones(step) == step.terminated

\* The transition handed to rb.add (line 115).
Transition(o, step, acts) ==
    [obs |-> o, next_obs |-> RealNextObs(step), actions |-> acts,
     rewards |-> step.rewards, dones |-> StoredDones(step)]

\* The observation carried to the next iteration (line 118).
\* Variant: the corrected next observation carried forward.
CarriedObsCorrected(step) == RealNextObs(step)

CarriedObs(step) == step.next_obs

\* global_step > args.learning_starts (line 121).
\* Variant: learning already at global_step = learning_starts.
LearningInclusive(gs) == gs >= args.learning_starts

Learning(gs) == gs > args.learning_starts

\* The guard of the learning update (lines 121-122).
\* Variant: a learning update on the cadence alone, warm-up included.
TrainDueAnyState(gs) == gs % args.train_frequency = 0

TrainDue(gs) == Learning(gs) /\ gs % args.train_frequency = 0

\* The guard of the target update (lines 121, 142).
\* Variant: a target update on the cadence alone, warm-up included.
SyncDueAnyState(gs) == gs % args.target_network_frequency = 0

SyncDue(gs) == Learning(gs) /\ gs % args.target_network_frequency = 0

\* td_target of one batch element (lines 125-126).
TdTarget(targ, d) ==
    RatAdd(FromInt(d.rewards),
           RatMul(RatMul(args.gamma, MaxValue(QValues(targ, d.next_observations))),
                  FromInt(1 - d.dones)))

RECURSIVE GradSum(_, _, _, _, _)
GradSum(net, data, td, a, j) ==
    IF j = 0 THEN FromInt(0)
    ELSE LET rest == GradSum(net, data, td, a, j - 1)
         IN  IF data[j].actions = a
             THEN RatAdd(rest, RatSub(QValues(net, data[j].observations)[a], td[j]))
             ELSE rest

Sign(x) == IF x[1] > 0 THEN 1 ELSE IF x[1] < 0 THEN -1 ELSE 0

\* loss.backward(); optimizer.step() (lines 127-139): each parameter moves one unit
\* against the sign of the gradient of the squared error over the batch.
GradientStep(net, data, td) ==
    [a \in DOMAIN net |->
        RatSub(net[a], FromInt(Sign(GradSum(net, data, td, a, Len(data)))))]

\* The parameters handed to the optimizer, optim.Adam(self.q_net.parameters()) (line 78).
\* Variant: an optimizer over the parameters of both estimators.
OptimizerParamsBoth == {"q_net", "targ_net"}

OptimizerParams == {"q_net"}

\* optimizer.step() as it acts on the estimator called name (line 139): only the
\* parameters handed to the optimizer move.
Optimized(name, net, data, td) ==
    IF name \in OptimizerParams THEN GradientStep(net, data, td) ELSE net

\* The target update of one parameter (lines 144-146).
\* Variant: the blend with the online and target parameters swapped.
PolyakSwapped(p, pt) ==
    RatAdd(RatMul(args.tau, pt), RatMul(RatSub(FromInt(1), args.tau), p))

Polyak(p, pt) ==
    RatAdd(RatMul(args.tau, p), RatMul(RatSub(FromInt(1), args.tau), pt))

\* The target update over every parameter (lines 143-146).
SyncedTarget(q, t) == [a \in DOMAIN t |-> Polyak(q[a], t[a])]

\* self.targ_net.load_state_dict(self.q_net.state_dict()) in __init__ (line 67):
\* q and t are the two freshly built networks.
\* Variant: the target left with its own initial parameters.
ConstructedTargetNoCopy(q, t) == t

ConstructedTarget(q, t) == q

\* self.targ_net.load_state_dict(self.q_net.state_dict()) in load (line 162): q is
\* the online network after loading, t the target before.
LoadedTarget(q, t) == q

NoEvents == [adds |-> 0, samples |-> 0, grads |-> 0, syncs |-> 0]

\* train.py main has not been entered.
NoMain == <<>>

(***************************************************************************)
(* The trainer's operations.                                               *)
(***************************************************************************)
\* DQNTrainer.__init__ (lines 59-75).
Construct ==
    /\ pc = "new"
    /\ \E q0 \in InitParams, t0 \in InitParams :
          /\ q_net' = q0
          /\ targ_net' = ConstructedTarget(q0, t0)
    /\ rb' = RbNew(args.buffer_size)
    /\ pc' = "idle"
    /\ UNCHANGED <<main, args, envs, global_step, epsilon, explored, actions, obs,
                   step_out, disk, batch, td_target, events>>

\* DQNTrainer.save (lines 153-156).
Save ==
    /\ pc \in {"idle", "done"}
    /\ disk' = q_net
    /\ UNCHANGED <<main, args, envs, pc, global_step, epsilon, explored, actions, obs,
                   step_out, q_net, targ_net, rb, batch, td_target, events>>

\* DQNTrainer.load (lines 158-162); torch.load raises when no file exists.
Load ==
    /\ pc \in {"idle", "done"}
    /\ disk /= NoNet
    /\ q_net' = disk
    /\ targ_net' = LoadedTarget(disk, targ_net)
    /\ UNCHANGED <<main, args, envs, pc, global_step, epsilon, explored, actions, obs,
                   step_out, rb, disk, batch, td_target, events>>

\* for global_step in range(args.total_timesteps) (line 87): the range is exhausted
\* once gs iterations have run.
\* Variant: a range that yields one value more.
RangeExhaustedLate(gs) == gs = args.total_timesteps + 1

RangeExhausted(gs) == gs = args.total_timesteps

\* The start of train: envs.reset() and the first test of the loop (lines 85-87).
TrainStart ==
    /\ pc = "idle"
    /\ \E o \in [Envs -> ObsSpace] : obs' = o
    /\ global_step' = 0
    /\ pc' = IF RangeExhausted(0) THEN "done" ELSE "select"
    /\ UNCHANGED <<main, args, envs, epsilon, explored, actions, step_out, q_net,
                   targ_net, rb, disk, batch, td_target, events>>

\* Action selection (lines 89-94).
SelectAction ==
    /\ pc = "select"
    /\ epsilon' = linear_schedule(args.start_e, args.end_e, Duration(args), global_step)
    /\ \E u \in ExploreChoices(epsilon') :
          /\ explored' = SelectionModes(u)
          /\ \E acts \in ActionChoices(u) : actions' = acts
    /\ events' = NoEvents
    /\ pc' = "env"
    /\ UNCHANGED <<main, args, envs, global_step, obs, step_out, q_net, targ_net, rb,
                   disk, batch, td_target>>

\* envs.step(actions) (line 97).
EnvStep ==
    /\ pc = "env"
    /\ \E o \in [Envs -> InstanceOutcomes] : step_out' = StepResult(o)
    /\ pc' = "store"
    /\ UNCHANGED <<main, args, envs, global_step, epsilon, explored, actions, obs,
                   q_net, targ_net, rb, disk, batch, td_target, events>>

\* Buffering the transition and advancing obs (lines 110-118).
\* Variant: obs advanced and the learning update reached with nothing added.
StoreTransitionNoAdd ==
    /\ pc = "store"
    /\ obs' = CarriedObs(step_out)
    /\ pc' = "learn"
    /\ UNCHANGED <<main, args, envs, global_step, epsilon, explored, actions, step_out,
                   q_net, targ_net, rb, disk, batch, td_target, events>>

StoreTransition ==
    /\ pc = "store"
    /\ rb' = RbAdd(rb, Transition(obs, step_out, actions))
    /\ obs' = CarriedObs(step_out)
    /\ events' = [events EXCEPT !.adds = @ + 1]
    /\ pc' = "learn"
    /\ UNCHANGED <<main, args, envs, global_step, epsilon, explored, actions, step_out,
                   q_net, targ_net, disk, batch, td_target>>

\* The learning update (lines 121-139).
Learn ==
    /\ pc = "learn"
    /\ IF TrainDue(global_step)
       THEN \E b \in RbSamples(rb, args.batch_size) :
               LET data == [j \in 1 .. args.batch_size |-> RbData(rb, b[j])]
                   td == [j \in 1 .. args.batch_size |-> TdTarget(targ_net, data[j])]
               IN  /\ batch' = data
                   /\ td_target' = td
                   /\ q_net' = Optimized("q_net", q_net, data, td)
                   /\ targ_net' = Optimized("targ_net", targ_net, data, td)
                   /\ events' = [events EXCEPT !.samples = @ + 1, !.grads = @ + 1]
       ELSE UNCHANGED <<batch, td_target, q_net, targ_net, events>>
    /\ pc' = "sync"
    /\ UNCHANGED <<main, args, envs, global_step, epsilon, explored, actions, obs,
                   step_out, rb, disk>>

\* The target update and the end of the iteration (lines 141-146, 87).
SyncTarget ==
    /\ pc = "sync"
    /\ IF SyncDue(global_step)
       THEN /\ targ_net' = SyncedTarget(q_net, targ_net)
            /\ events' = [events EXCEPT !.syncs = @ + 1]
       ELSE UNCHANGED <<targ_net, events>>
    /\ global_step' = global_step + 1
    /\ pc' = IF RangeExhausted(global_step + 1) THEN "done" ELSE "select"
    /\ UNCHANGED <<main, args, envs, epsilon, explored, actions, obs, step_out, q_net,
                   rb, disk, batch, td_target>>

Next ==
    \/ Construct
    \/ Save
    \/ Load
    \/ TrainStart
    \/ SelectAction
    \/ EnvStep
    \/ StoreTransition
    \/ Learn
    \/ SyncTarget

\* The configurations of the loop specification.
Half == <<1, 2>>

LoopArgs ==
    [total_timesteps : 0 .. MaxSteps,
     learning_starts : 0 .. 1,
     train_frequency : {1, 2},
     target_network_frequency : {1, 2},
     batch_size : {1, 2},
     buffer_size : 1 .. MaxCap,
     tau : {FromInt(0), Half, FromInt(1)},
     gamma : {<<99, 100>>},
     start_e : {FromInt(1)},
     end_e : {<<1, 20>>},
     exploration_fraction : {Half}]

LoopEnvs ==
    [num_envs : {1}, single_observation_space : {{0}},
     single_action_space : {{0}}, reward_range : {{1}}]

\* Nothing computed yet.
Blank ==
    /\ global_step = 0
    /\ epsilon = <<>>
    /\ explored = <<>>
    /\ actions = <<>>
    /\ obs = <<>>
    /\ step_out = NoStep
    /\ q_net = NoNet
    /\ targ_net = NoNet
    /\ rb = RbNew(0)
    /\ disk = NoNet
    /\ batch = <<>>
    /\ td_target = <<>>
    /\ events = NoEvents

\* Before DQNTrainer(config) runs.
Unbuilt ==
    /\ pc = "new"
    /\ Blank
    /\ main = NoMain

Init ==
    /\ args \in LoopArgs
    /\ envs \in LoopEnvs
    /\ Unbuilt

Spec == Init /\ [][Next]_vars


\* The data-flow specification: one instance of an environment whose observations,
\* rewards and episode ends vary, and learning from the second iteration on.
DataArgs ==
    [total_timesteps : {DataSteps},
     learning_starts : {0},
     train_frequency : {1},
     target_network_frequency : {1},
     batch_size : {1},
     buffer_size : {1, 2},
     tau : {Half},
     gamma : {<<99, 100>>},
     start_e : {FromInt(1)},
     end_e : {<<1, 20>>},
     exploration_fraction : {Half}]

DataEnvSet ==
    [num_envs : {1}, single_observation_space : {{0, 1}},
     single_action_space : {{0, 1}}, reward_range : {{0, 1}}]

InitData ==
    /\ args \in DataArgs
    /\ envs \in DataEnvSet
    /\ Unbuilt

SpecData == InitData /\ [][Next]_vars

\* The vectorised specification: several instances stepped together for one
\* iteration, with an epsilon strictly between 0 and 1.
VecArgs ==
    [total_timesteps : {1},
     learning_starts : {0},
     train_frequency : {1},
     target_network_frequency : {1},
     batch_size : {1},
     buffer_size : {1},
     tau : {FromInt(1)},
     gamma : {<<99, 100>>},
     start_e : {Half},
     end_e : {<<1, 20>>},
     exploration_fraction : {Half}]

VecEnvSet ==
    [num_envs : {VecEnvs}, single_observation_space : {{0, 1}},
     single_action_space : {{0, 1}}, reward_range : {{1}}]

InitVec ==
    /\ args \in VecArgs
    /\ envs \in VecEnvSet
    /\ Unbuilt

SpecVec == InitVec /\ [][Next]_vars


\* The synchronisation specification: estimators with one parameter per action of a
\* two-action environment, learning from the second iteration on, under every tau
\* and target_network_frequency of the loop specification.
SyncArgs ==
    [total_timesteps : {SyncSteps},
     learning_starts : {0},
     train_frequency : {1},
     target_network_frequency : {1, 2},
     batch_size : {1},
     buffer_size : {1},
     tau : {FromInt(0), Half, FromInt(1)},
     gamma : {<<99, 100>>},
     start_e : {FromInt(1)},
     end_e : {<<1, 20>>},
     exploration_fraction : {Half}]

SyncEnvSet ==
    [num_envs : {1}, single_observation_space : {{0, 1}},
     single_action_space : {{0, 1}}, reward_range : {{1}}]

InitSync ==
    /\ args \in SyncArgs
    /\ envs \in SyncEnvSet
    /\ Unbuilt

SpecSync == InitSync /\ [][Next]_vars

\* The termination specification: runs of every length up to TermSteps over both
\* buffer capacities, in which a started loop keeps taking its steps: the body is
\* straight-line code and envs.step returns.
LoopStep ==
    \/ SelectAction
    \/ EnvStep
    \/ StoreTransition
    \/ Learn
    \/ SyncTarget

TermArgs ==
    [total_timesteps : 0 .. TermSteps,
     learning_starts : {0, 1},
     train_frequency : {1, 2},
     target_network_frequency : {1},
     batch_size : {1},
     buffer_size : {1, 2},
     tau : {FromInt(1)},
     gamma : {<<99, 100>>},
     start_e : {FromInt(1)},
     end_e : {<<1, 20>>},
     exploration_fraction : {Half}]

InitTerm ==
    /\ args \in TermArgs
    /\ envs \in LoopEnvs
    /\ Unbuilt

SpecTerm == InitTerm /\ [][Next]_vars /\ WF_vars(LoopStep)

\* The configuration specification: every value --tau parses to as a float
\* (lines 34-35), below 0, inside [0, 1] and above 1, for a run of two iterations.
TauValues == {<<-1, 2>>, FromInt(0), Half, FromInt(1), <<3, 2>>}

ConfigArgs ==
    [total_timesteps : {2},
     learning_starts : {0},
     train_frequency : {1},
     target_network_frequency : {1},
     batch_size : {1},
     buffer_size : {1, 2},
     tau : TauValues,
     gamma : {<<99, 100>>},
     start_e : {FromInt(1)},
     end_e : {<<1, 20>>},
     exploration_fraction : {Half}]

InitConfig ==
    /\ args \in ConfigArgs
    /\ envs \in LoopEnvs
    /\ Unbuilt

SpecConfig == InitConfig /\ [][Next]_vars

(***************************************************************************)
(* The schedule specification: the epsilon of every iteration of a run,    *)
(* over a range of start_e, end_e, exploration_fraction and                *)
(* total_timesteps. After a step epsilon is that of iteration              *)
(* global_step - 1.                                                        *)
(***************************************************************************)
\* Line 89 of each iteration in turn.
ScheduleStep ==
    /\ pc = "schedule"
    /\ global_step < args.total_timesteps
    /\ epsilon' = linear_schedule(args.start_e, args.end_e, Duration(args), global_step)
    /\ global_step' = global_step + 1
    /\ UNCHANGED <<main, args, envs, pc, explored, actions, obs, step_out, q_net,
                   targ_net, rb, disk, batch, td_target, events>>

SchedValues == {FromInt(0), <<1, 20>>, Half, FromInt(1)}

SchedArgs ==
    [total_timesteps : {1, 2, 5, 100, MaxSchedSteps},
     learning_starts : {0},
     train_frequency : {1},
     target_network_frequency : {1},
     batch_size : {1},
     buffer_size : {1},
     tau : {FromInt(1)},
     gamma : {<<99, 100>>},
     start_e : SchedValues,
     end_e : SchedValues,
     exploration_fraction : {<<1, 10>>, Half, FromInt(1)}]

InitSched ==
    /\ args \in SchedArgs
    /\ envs \in LoopEnvs
    /\ pc = "schedule"
    /\ Blank
    /\ main = NoMain

NextSched == ScheduleStep

SpecSched == InitSched /\ [][NextSched]_vars

(***************************************************************************)
(* The buffer specification: a buffer of some capacity receives            *)
(* transitions marked 0, 1, 2, ... in order; global_step counts the adds.  *)
(***************************************************************************)
BufferAdd ==
    /\ pc = "buffer"
    /\ global_step < MaxInserts
    /\ rb' = RbAdd(rb, global_step)
    /\ global_step' = global_step + 1
    /\ UNCHANGED <<main, args, envs, pc, epsilon, explored, actions, obs, step_out,
                   q_net, targ_net, disk, batch, td_target, events>>

BufferArgs ==
    [total_timesteps : {MaxInserts},
     learning_starts : {0},
     train_frequency : {1},
     target_network_frequency : {1},
     batch_size : {1},
     buffer_size : 1 .. MaxBufCap,
     tau : {FromInt(1)},
     gamma : {<<99, 100>>},
     start_e : {FromInt(1)},
     end_e : {<<1, 20>>},
     exploration_fraction : {Half}]

InitBuffer ==
    /\ args \in BufferArgs
    /\ envs \in LoopEnvs
    /\ pc = "buffer"
    /\ global_step = 0
    /\ epsilon = <<>>
    /\ explored = <<>>
    /\ actions = <<>>
    /\ obs = <<>>
    /\ step_out = NoStep
    /\ q_net = NoNet
    /\ targ_net = NoNet
    /\ rb = RbNew(args.buffer_size)
    /\ disk = NoNet
    /\ batch = <<>>
    /\ td_target = <<>>
    /\ events = NoEvents
    /\ main = NoMain

NextBuffer == BufferAdd

SpecBuffer == InitBuffer /\ [][NextBuffer]_vars


(***************************************************************************)
(* train.py main (lines 48-151): the check of algorithm_name, then the     *)
(* device, the run directory, the environments, the runner and its run.    *)
(* pc is main's position: main, device, run_dir, env, runner, run, post,   *)
(* exit, or raised once an exception has left main.                        *)
(***************************************************************************)
trainer_vars == <<args, envs, global_step, epsilon, explored, actions, obs,
                  step_out, q_net, targ_net, rb, disk, batch, td_target, events>>

\* The names --algorithm_name is given in the runs checked.
AlgorithmNames == {"mappo", "rmappo", "dqn", "ppo", ""}

\* The outcome of lines 54-61 for a name and the two flags.
\* Variant: a check that lets every other name through.
AlgorithmCheckLenient(name, recurrent, naive) ==
    IF name = "rmappo"
    THEN IF recurrent \/ naive THEN "ok" ELSE "AssertionError"
    ELSE "ok"

AlgorithmCheck(name, recurrent, naive) ==
    IF name = "rmappo"
    THEN IF recurrent \/ naive THEN "ok" ELSE "AssertionError"
    ELSE IF name = "mappo" THEN "ok"
    ELSE "NotImplementedError"

\* A flag after lines 54-61: mappo clears it (lines 58-60).
CheckedFlag(name, flag) == IF name = "mappo" THEN FALSE ELSE flag

\* Lines 54-61.
CheckAlgorithm ==
    /\ pc = "main"
    /\ LET outcome == AlgorithmCheck(main.algorithm_name, main.use_recurrent_policy,
                                     main.use_naive_recurrent_policy)
       IN  IF outcome = "ok"
           THEN /\ main' = [main EXCEPT
                              !.use_recurrent_policy =
                                  CheckedFlag(main.algorithm_name, @),
                              !.use_naive_recurrent_policy =
                                  CheckedFlag(main.algorithm_name, @)]
                /\ pc' = "device"
           ELSE /\ main' = [main EXCEPT !.raised = outcome]
                /\ pc' = "raised"
    /\ UNCHANGED trainer_vars

\* Lines 63-74; torch.cuda.is_available() is the machine's answer.
SelectDevice ==
    /\ pc = "device"
    /\ \E available \in BOOLEAN :
          main' = [main EXCEPT !.device = IF main.cuda /\ available
                                          THEN "cuda:0" ELSE "cpu"]
    /\ pc' = "run_dir"
    /\ UNCHANGED trainer_vars

\* Lines 76-106: the run directory exists from here on.
MakeRunDir ==
    /\ pc = "run_dir"
    /\ main' = [main EXCEPT !.run_dir = "created",
                            !.wandb_run = IF main.use_wandb THEN "started" ELSE "None"]
    /\ pc' = "env"
    /\ UNCHANGED trainer_vars

\* Lines 108-120: seeds, then make_env for training and, with use_eval, for evaluation.
MakeEnvs ==
    /\ pc = "env"
    /\ main' = [main EXCEPT !.envs = "made",
                            !.eval_envs = IF main.use_eval THEN "made" ELSE "None"]
    /\ pc' = "runner"
    /\ UNCHANGED trainer_vars

\* Lines 122-138: runner = Runner(config).
BuildRunner ==
    /\ pc = "runner"
    /\ main' = [main EXCEPT !.runner = "built"]
    /\ pc' = "run"
    /\ UNCHANGED trainer_vars

\* Line 139: runner.run().
RunRunner ==
    /\ pc = "run"
    /\ main' = [main EXCEPT !.runner = "ran"]
    /\ pc' = "post"
    /\ UNCHANGED trainer_vars

\* Lines 141-151: the environments are closed and the run finished.
PostProcess ==
    /\ pc = "post"
    /\ main' = [main EXCEPT !.envs = "closed",
                            !.eval_envs = IF main.use_eval THEN "closed" ELSE "None",
                            !.wandb_run = IF main.use_wandb THEN "finished" ELSE "None"]
    /\ pc' = "exit"
    /\ UNCHANGED trainer_vars

\* What parse_known_args (lines 49-52) can hand to the check, nothing created yet.
MainInputs ==
    [algorithm_name : AlgorithmNames,
     use_recurrent_policy : BOOLEAN,
     use_naive_recurrent_policy : BOOLEAN,
     cuda : BOOLEAN,
     use_wandb : BOOLEAN,
     use_eval : BOOLEAN,
     parsed : [use_recurrent_policy : BOOLEAN, use_naive_recurrent_policy : BOOLEAN],
     device : {"None"},
     run_dir : {"None"},
     wandb_run : {"None"},
     envs : {"None"},
     eval_envs : {"None"},
     runner : {"None"},
     raised : {"None"}]

InitMain ==
    /\ args \in VecArgs
    /\ envs \in LoopEnvs
    /\ pc = "main"
    /\ Blank
    /\ main \in MainInputs
    /\ main.parsed.use_recurrent_policy = main.use_recurrent_policy
    /\ main.parsed.use_naive_recurrent_policy = main.use_naive_recurrent_policy

NextMain ==
    \/ CheckAlgorithm
    \/ SelectDevice
    \/ MakeRunDir
    \/ MakeEnvs
    \/ BuildRunner
    \/ RunRunner
    \/ PostProcess

SpecMain == InitMain /\ [][NextMain]_vars


(***************************************************************************)
(* Properties.                                                             *)
(***************************************************************************)
\* The slot the last add wrote.
LastStored == rb.slots[(rb.pos + rb.buffer_size - 1) % rb.buffer_size]

\* The iteration global_step has buffered its transition and step_out is its step.
Buffered == pc \in {"learn", "sync"} /\ events.adds = 1

\* An iteration has just ended: events are those of iteration global_step - 1.
IterationEnded == pc \in {"select", "done"} /\ global_step >= 1

\* C1: the next observation buffered for an instance is the final observation the
\* environment reported when that instance's truncated flag is set, and the
\* observation step returned when it is not.
C1_TruncatedStoresFinalObservation ==
    Buffered =>
        \A i \in Envs :
            /\ step_out.truncated[i] =>
                   LastStored.next_obs[i] = step_out.final_observation[i]
            /\ ~step_out.truncated[i] =>
                   LastStored.next_obs[i] = step_out.next_obs[i]

\* C1 witness: one instance truncated with a final observation that differs from the
\* post-reset one, buffered with the final observation; another instance goes on.
C1_Witness ==
    /\ Buffered
    /\ \E i, j \in Envs :
          /\ step_out.truncated[i]
          /\ step_out.final_observation[i] /= step_out.next_obs[i]
          /\ LastStored.next_obs[i] = step_out.final_observation[i]
          /\ ~step_out.truncated[j] /\ ~step_out.terminated[j]
          /\ LastStored.next_obs[j] = step_out.next_obs[j]

\* The largest score the target estimator gives observation o.
IsTargetMax(v, o) ==
    /\ \E a \in Actions : v = QValues(targ_net, o)[a]
    /\ \A a \in Actions : RatLeq(QValues(targ_net, o)[a], v)

\* C2: the done flag buffered for an instance is its terminated flag, whatever its
\* truncated flag; the target of a sampled transition with done = 0 is
\* reward + gamma * max_a Target(next_obs)[a], and with done = 1 the reward alone.
C2_BootstrapMaskIsTerminated ==
    /\ Buffered =>
          \A i \in Envs : LastStored.dones[i] = step_out.terminated[i]
    /\ (pc = "sync" /\ events.samples = 1) =>
          \A j \in DOMAIN batch :
              /\ batch[j].dones \in {0, 1}
              /\ batch[j].dones = 1 => td_target[j] = FromInt(batch[j].rewards)
              /\ batch[j].dones = 0 =>
                    \E v \in {QValues(targ_net, batch[j].next_observations)[a] : a \in Actions} :
                        /\ IsTargetMax(v, batch[j].next_observations)
                        /\ td_target[j] =
                              RatAdd(FromInt(batch[j].rewards), RatMul(args.gamma, v))

\* C2 witness: with a buffer of one slot, the transition truncated but not terminated
\* in this iteration is sampled with done = 0 and its target exceeds its reward.
C2_Witness ==
    /\ pc = "sync" /\ events.samples = 1 /\ events.adds = 1
    /\ rb.buffer_size = 1
    /\ step_out.truncated[1] /\ ~step_out.terminated[1]
    /\ batch[1].dones = 0
    /\ RatLt(FromInt(batch[1].rewards), td_target[1])

\* What the learning step of iteration global_step did, seen before its target update.
C3_Counts ==
    pc = "sync" =>
        IF global_step <= args.learning_starts
        THEN events.samples = 0 /\ events.grads = 0
        ELSE IF global_step % args.train_frequency = 0
             THEN events.samples = 1 /\ events.grads = 1
             ELSE events.samples = 0 /\ events.grads = 0

\* C3: an iteration with global_step <= learning_starts samples no batch, applies no
\* gradient step and leaves the online estimator as it was; an iteration with
\* global_step > learning_starts samples once and applies one gradient step when
\* global_step % train_frequency = 0, and does neither otherwise.
C3_WarmupThenLearning ==
    /\ []C3_Counts
    /\ [][(pc \in {"select", "env", "store", "learn", "sync"}
           /\ global_step <= args.learning_starts) => q_net' = q_net]_vars

\* C3 witness: a learning iteration that sampled and applied its gradient step, after
\* a warm-up iteration.
C3_Witness ==
    /\ pc = "sync"
    /\ args.learning_starts >= 1
    /\ global_step > args.learning_starts
    /\ global_step % args.train_frequency = 0
    /\ events.samples = 1 /\ events.grads = 1

\* C4 as claimed: the target synchroniser runs in exactly the iterations whose
\* global_step is a multiple of target_network_frequency, warm-up or not.
C4_SyncEveryMultiple ==
    IterationEnded =>
        (events.syncs = 1 <=> (global_step - 1) % args.target_network_frequency = 0)

\* C4 amended: the target synchroniser runs in exactly the iterations with
\* global_step > learning_starts whose global_step is a multiple of
\* target_network_frequency, once each.
C4_SyncOnlyWhenLearning ==
    IterationEnded =>
        /\ events.syncs \in {0, 1}
        /\ events.syncs = 1 <=>
              /\ global_step - 1 > args.learning_starts
              /\ (global_step - 1) % args.target_network_frequency = 0

\* C4 witness: a learning iteration on the cadence has synchronised the target after
\* a warm-up iteration on the cadence has not.
C4_Witness ==
    /\ IterationEnded
    /\ events.syncs = 1
    /\ args.target_network_frequency = 1
    /\ args.learning_starts = 1
    /\ global_step - 1 = 2

\* C5: with two or more instances and an epsilon strictly between 0 and 1, action
\* selection can give one instance a random action and another the greedy one.
C5_PerInstanceChoice ==
    (/\ pc = "select"
     /\ envs.num_envs >= 2
     /\ RatLt(FromInt(0), linear_schedule(args.start_e, args.end_e, Duration(args), global_step))
     /\ RatLt(linear_schedule(args.start_e, args.end_e, Duration(args), global_step), FromInt(1)))
    => ENABLED (SelectAction /\ \E i, j \in Envs : explored'[i] /\ ~explored'[j])


Min(a, b) == IF a < b THEN a ELSE b

\* The last of the insertions 0 .. n - 1 that went to slot i of a buffer of capacity c.
LastInsertionAt(i, n, c) ==
    CHOOSE k \in 0 .. n - 1 :
        /\ k % c = i
        /\ \A m \in 0 .. n - 1 : m % c = i => m <= k

\* C6: after n adds to a buffer of capacity C the number of filled entries is
\* min(n, C), never more than C, and every filled slot i holds the most recent
\* insertion k with k mod C = i; capacity 4 and markers 0..5 give slots [4, 5, 2, 3].
C6_CircularBuffer ==
    pc = "buffer" =>
        /\ RbSize(rb) = Min(global_step, args.buffer_size)
        /\ RbSize(rb) <= args.buffer_size
        /\ \A i \in 0 .. RbSize(rb) - 1 :
              rb.slots[i] = LastInsertionAt(i, global_step, args.buffer_size)
        /\ (args.buffer_size = 4 /\ global_step = 6) =>
              <<rb.slots[0], rb.slots[1], rb.slots[2], rb.slots[3]>> = <<4, 5, 2, 3>>

\* C6 witness: six adds to a buffer of capacity four have wrapped around.
C6_Witness ==
    /\ pc = "buffer"
    /\ args.buffer_size = 4
    /\ global_step = 6
    /\ RbSize(rb) = 4
    /\ rb.slots[0] = 4 /\ rb.slots[1] = 5 /\ rb.slots[2] = 2 /\ rb.slots[3] = 3

\* The epsilon the next iteration of the schedule will use.
NextEpsilon == linear_schedule(args.start_e, args.end_e, Duration(args), global_step)

\* C7: with start_e >= end_e and duration > 0, every epsilon lies between end_e and
\* start_e, the epsilon of the next step is no larger than the one before, and once
\* epsilon is end_e it stays end_e.
C7_EpsilonBoundedMonotone ==
    (/\ pc = "schedule"
     /\ global_step >= 1
     /\ RatLeq(args.end_e, args.start_e)
     /\ RatLt(FromInt(0), Duration(args)))
    => /\ RatLeq(args.end_e, epsilon)
       /\ RatLeq(epsilon, args.start_e)
       /\ RatLeq(NextEpsilon, epsilon)
       /\ epsilon = args.end_e => NextEpsilon = args.end_e

\* C7 witness: a decaying schedule has come down from start_e to its floor end_e.
C7_Witness ==
    /\ pc = "schedule"
    /\ global_step >= 2
    /\ RatLt(args.end_e, args.start_e)
    /\ epsilon = args.end_e
    /\ NextEpsilon = args.end_e

\* The formula of the exploration schedule, step first:
\* max(start_e + step * (end_e - start_e) / duration, end_e).
ScheduleFormula(step) ==
    RatMax(RatAdd(args.start_e,
                  RatDiv(RatMul(FromInt(step), RatSub(args.end_e, args.start_e)),
                         Duration(args))),
           args.end_e)

\* The scenario start_e = 1.0, end_e = 0.05, exploration_fraction = 0.5,
\* total_timesteps = 100: epsilon is 1.0, 0.525, 0.05, 0.05 at steps 0, 25, 50, 99.
ScheduleScenario ==
    (/\ args.start_e = FromInt(1) /\ args.end_e = <<1, 20>>
     /\ args.exploration_fraction = Half /\ args.total_timesteps = 100)
    => /\ global_step - 1 = 0 => epsilon = FromInt(1)
       /\ global_step - 1 = 25 => epsilon = <<21, 40>>
       /\ global_step - 1 = 50 => epsilon = <<1, 20>>
       /\ global_step - 1 = 99 => epsilon = <<1, 20>>

C9_SyncExtremes ==
    [][(pc = "sync" /\ events'.syncs = events.syncs + 1) =>
          /\ args.tau = FromInt(1) => targ_net' = q_net
          /\ args.tau = FromInt(0) => targ_net' = targ_net]_vars

\* C9 witness: a target update with tau = 0 has run while the online parameters had
\* moved away from the target's, and the target kept its own.
C9_Witness ==
    /\ IterationEnded
    /\ events.syncs = 1
    /\ args.tau = FromInt(0)
    /\ \A a \in Actions : targ_net[a] /= q_net[a]

\* C10: right after construction and right after every load the target parameters
\* are the online parameters (after load, the loaded ones).
C10_TargetCopiedOnBuildAndLoad ==
    [][(Construct \/ Load) => (targ_net' = q_net' /\ (Load => targ_net' = disk))]_vars

\* C10 witness: after training had moved the online parameters away from the
\* checkpoint and from the target, a load has put the checkpoint in both.
C10_Witness ==
    /\ pc = "done"
    /\ events.grads = 1
    /\ disk /= NoNet
    /\ q_net = disk
    /\ targ_net = disk
    /\ args.tau = FromInt(0)
    /\ args.learning_starts = 0
    /\ global_step >= 3

\* C11: the target parameters are left as they were by action selection, by the
\* environment step, by buffering, by every learning update (gradient step or not)
\* and by save; a step that changes them is a target update, the construction or a
\* load, so the target is frozen from one target update to the next.
C11_TargetChangesOnlyOnSync ==
    [][/\ (SelectAction \/ EnvStep \/ StoreTransition \/ Learn \/ Save \/ TrainStart)
            => targ_net' = targ_net
       /\ (targ_net' /= targ_net)
            => \/ Construct
               \/ Load
               \/ (pc = "sync" /\ events'.syncs = events.syncs + 1)]_vars

\* C11 witness: between the target updates of iterations 1 and 2, the gradient step
\* of iteration 2 has moved the online parameters and the target still holds the
\* blend the update of iteration 1 gave it.
C11_Witness ==
    /\ pc = "sync"
    /\ global_step = 2
    /\ args.target_network_frequency = 1
    /\ args.learning_starts = 0
    /\ args.tau = Half
    /\ events.grads = 1
    /\ \E a \in Actions : targ_net[a][2] = 2
    /\ \A a \in Actions : q_net[a] /= targ_net[a]

\* The insertions made so far in a run of train.
InsertCount == global_step + (IF pc \in {"learn", "sync"} THEN 1 ELSE 0)

\* The positions of an iteration of the loop.
InLoop == pc \in {"select", "env", "store", "learn", "sync"}

\* The counter and the buffer at every position of a run.
C12_Counter ==
    /\ global_step >= 0
    /\ InLoop => global_step < args.total_timesteps
    /\ pc = "done" => global_step = args.total_timesteps
    /\ pc /= "new" =>
          /\ rb.pos = InsertCount % args.buffer_size
          /\ RbSize(rb) = Min(InsertCount, args.buffer_size)

\* One iteration: one environment step, then one insertion, then the counter's
\* advance by one; the counter changes at no other step.
C12_Iteration ==
    /\ (pc' /= pc) =>
          <<pc, pc'>> \in {<<"new", "idle">>, <<"idle", "select">>, <<"idle", "done">>,
                           <<"select", "env">>, <<"env", "store">>,
                           <<"store", "learn">>, <<"learn", "sync">>,
                           <<"sync", "select">>, <<"sync", "done">>}
    /\ (pc = "idle" /\ pc' /= pc) =>
          /\ global_step' = 0
          /\ pc' = "done" <=> args.total_timesteps = 0
    /\ (pc = "env" /\ pc' /= pc) => EnvStep
    /\ (pc = "store" /\ pc' /= pc) => StoreTransition
    /\ (rb' /= rb) => (Construct \/ StoreTransition)
    /\ (global_step' /= global_step) =>
          /\ pc = "sync"
          /\ global_step' = global_step + 1
          /\ events.adds = 1
    /\ (pc = "sync" /\ pc' /= pc) => global_step' = global_step + 1

\* C12: the counter starts at 0, advances by exactly one at the end of each iteration
\* and at no other step, each iteration makes one environment step and one
\* insertion, the run is done exactly when the counter is total_timesteps (at once
\* when total_timesteps = 0), and a started loop reaches done.
C12_LoopTerminates ==
    /\ []C12_Counter
    /\ [][C12_Iteration]_vars
    /\ (InLoop ~> (pc = "done"))

\* C12 witness: a run of three iterations is done with its counter at
\* total_timesteps and a two-slot buffer that wrapped around.
C12_Witness ==
    /\ pc = "done"
    /\ args.total_timesteps = 3
    /\ global_step = 3
    /\ args.buffer_size = 2
    /\ rb.full /\ rb.pos = 1

\* C13: no request for a batch larger than the number of filled entries returns a
\* batch that the iteration goes on to learn from.
C13_OversizedBatchIsFatal ==
    (pc = "sync" /\ events.samples = 1) => args.batch_size <= RbSize(rb)

\* C14: a trainer whose tau lies outside [0, 1] is never constructed, so no loop
\* iteration and no target update runs with such a tau.
C14_InvalidTauRejected ==
    (pc /= "new") => (RatLeq(FromInt(0), args.tau) /\ RatLeq(args.tau, FromInt(1)))

\* The observation carried at every position after the buffering of an iteration and
\* before the environment step of the next one is the next_obs that step returned.
C15_Carried ==
    ((Buffered \/ IterationEnded \/ (pc = "env" /\ global_step >= 1))
        => obs = step_out.next_obs)

\* Action selection and the environment step leave the carried observation alone,
\* and buffering stores it as the transition's obs.
C15_Stored ==
    /\ (pc \in {"select", "env"}) => obs' = obs
    /\ (pc = "store" /\ pc' = "learn") =>
          rb'.slots[(rb'.pos + rb'.buffer_size - 1) % rb'.buffer_size].obs = obs

\* C15: after every iteration the carried obs is the next_obs the environment step
\* returned, the post-reset observation of an instance whose episode ended; the obs
\* buffered by the next iteration is that same observation, and the obs buffered by
\* iteration 0 is the one reset returned.
C15_CarriedObsIsEnvNextObs ==
    /\ []C15_Carried
    /\ [][C15_Stored]_vars

\* C15 witness: iteration 0 was truncated with a final observation that differs from
\* the post-reset one; iteration 1 has buffered the post-reset observation as its obs,
\* while iteration 0's next observation in the buffer is the final one.
C15_Witness ==
    /\ pc = "learn"
    /\ global_step = 1
    /\ args.buffer_size = 2
    /\ rb.slots[0].next_obs[1] = 1
    /\ rb.slots[1].obs[1] = ResetObs
    /\ step_out.truncated[1] /\ step_out.final_observation[1] /= step_out.next_obs[1]
    /\ obs[1] = step_out.next_obs[1]

\* C16: whenever an iteration has sampled, its own transition was added before, and
\* the buffer the sample drew from held min(global_step + 1, capacity) >= 1 entries;
\* no learning step is ever taken with a buffer that holds nothing.
C16_AddBeforeSample ==
    /\ (pc = "sync" /\ events.samples = 1) =>
          /\ events.adds = 1
          /\ RbSize(rb) = Min(global_step + 1, args.buffer_size)
          /\ RbSize(rb) >= 1
          /\ \A j \in DOMAIN batch : \E e \in (0 .. RbSize(rb) - 1) \X Envs :
                batch[j] = RbData(rb, e)
    /\ (pc = "learn") =>
          /\ events.adds = 1 /\ events.samples = 0
          /\ RbSize(rb) >= 1

\* C16 witness: the first learning iteration of a run with learning_starts = 0 has
\* sampled from a two-slot buffer that holds its own transition and the one before.
C16_Witness ==
    /\ pc = "sync"
    /\ events.samples = 1
    /\ events.adds = 1
    /\ args.learning_starts = 0
    /\ global_step = 1
    /\ args.buffer_size = 2
    /\ RbSize(rb) = 2

\* From construction to the learning update of iteration learning_starts + 1: no
\* iteration with global_step > learning_starts has reached its gradient step.
InWarmup ==
    /\ pc /= "new"
    /\ \/ global_step <= args.learning_starts
       \/ (global_step = args.learning_starts + 1
           /\ pc \in {"select", "env", "store", "learn", "done"})

\* C17: from construction until the end of the last iteration with
\* global_step <= learning_starts the target parameters equal the online parameters,
\* and no such iteration takes a gradient step or updates the target.
C17_WarmupEstimatorsIdentical ==
    /\ InWarmup => targ_net = q_net
    /\ (IterationEnded /\ global_step - 1 <= args.learning_starts) =>
          (events.grads = 0 /\ events.syncs = 0)
    /\ (pc \in {"learn", "sync"} /\ global_step <= args.learning_starts) =>
          (events.grads = 0 /\ events.syncs = 0)

\* C17 witness: the two warm-up iterations of a run with learning_starts = 1 have
\* ended, both on the cadence of the learning and target updates, and the
\* estimators are the same.
C17_Witness ==
    /\ pc = "select"
    /\ global_step = 2
    /\ args.learning_starts = 1
    /\ args.train_frequency = 1
    /\ args.target_network_frequency = 1
    /\ events.adds = 1 /\ events.grads = 0 /\ events.syncs = 0
    /\ targ_net = q_net

\* Nothing that main creates after the check exists.
NothingCreated ==
    /\ main.device = "None"
    /\ main.run_dir = "None"
    /\ main.wandb_run = "None"
    /\ main.envs = "None"
    /\ main.eval_envs = "None"
    /\ main.runner = "None"

\* C18: past the check the name is mappo or rmappo; with mappo both recurrent flags
\* are false; with rmappo main has raised AssertionError exactly when neither flag
\* was set; with any other name it has raised NotImplementedError; and whenever
\* either has been raised no run directory, environment or runner exists.
C18_AlgorithmNameChecked ==
    (pc /= "main") =>
        /\ main.algorithm_name = "mappo" =>
              /\ main.raised = "None"
              /\ ~main.use_recurrent_policy
              /\ ~main.use_naive_recurrent_policy
        /\ main.algorithm_name = "rmappo" =>
              /\ main.raised \in {"None", "AssertionError"}
              /\ main.raised = "AssertionError" <=>
                    ~(main.parsed.use_recurrent_policy
                      \/ main.parsed.use_naive_recurrent_policy)
              /\ main.use_recurrent_policy = main.parsed.use_recurrent_policy
              /\ main.use_naive_recurrent_policy = main.parsed.use_naive_recurrent_policy
        /\ main.algorithm_name \notin {"mappo", "rmappo"} =>
              main.raised = "NotImplementedError"
        /\ main.raised /= "None" => (pc = "raised" /\ NothingCreated)
        /\ main.raised = "None" => pc /= "raised"

\* C18 witness: mappo given with both recurrent flags set has run to the end with
\* both flags cleared and its runner run.
C18_Witness ==
    /\ pc = "exit"
    /\ main.algorithm_name = "mappo"
    /\ main.parsed.use_recurrent_policy /\ main.parsed.use_naive_recurrent_policy
    /\ ~main.use_recurrent_policy /\ ~main.use_naive_recurrent_policy
    /\ main.run_dir = "created" /\ main.runner = "ran"

=============================================================================
